---- MODULE Spec2Model ----
(***************************************************************************)
(* The useFilterFacets hook (src/unnamed/part_000) as a state machine.     *)
(*                                                                         *)
(* filterFacetState is the useState cell: a map from facet key to facet    *)
(* record.  Every setFilterFacetState(updater) call is one action: the     *)
(* updater is a pure function of prevState and of the arguments captured   *)
(* by the callback, and is modelled by an operator of the same name.       *)
(*                                                                         *)
(* A JavaScript object is a record together with the set of property       *)
(* names it actually has ("fields"); a property outside "fields" reads as  *)
(* undefined and holds the falsy default of its type here.  Strings that   *)
(* the code inspects (labels, search text) are sequences of characters.    *)
(***************************************************************************)
EXTENDS Integers, Sequences, FiniteSets, TLC

VARIABLES
    filterFacetState,   \* useState cell of the hook
    monoOpen,           \* hook prop, fixed at construction
    rendered,           \* snapshot the host rendered: where callers take facet records from
    queued,             \* updates dispatched since that snapshot was rendered
    last,               \* the call dispatched last: [op, id, value, accessor, text]
    threw,              \* whether that call's updater raised a TypeError
    history,            \* per facet: was it ever filtered, and each item's latest selected flag
                        \* (kept up to date by SpecTracked; elsewhere it stays as at Init,
                        \* where its domains are the initial keys and item values)
    repeated,           \* whether the call dispatched last repeats the one before it,
                        \* arguments included
    prior               \* filterFacetState as it was when the call dispatched last was made,
                        \* when that call is a toggleFacet or a toggleSelected; empty otherwise
                        \* (repeated and prior are kept by SpecTwice; elsewhere they stay
                        \* as at Init)

vars == <<filterFacetState, monoOpen, rendered, queued, last, threw, history, repeated, prior>>

----------------------------------------------------------------------------
(* Strings *)

\* String.prototype.toLowerCase on one character of the alphabet in use
LowerChar(c) ==
    CASE c = "O" -> "o"
      [] c = "C" -> "c"
      [] c = "B" -> "b"
      [] c = "P" -> "p"
      [] c = "L" -> "l"
      [] OTHER -> c

toLowerCase(s) == [i \in 1..Len(s) |-> LowerChar(s[i])]

\* String.prototype.includes: t occurs in s as a contiguous substring
includes(s, t) ==
    \E i \in 0..(Len(s) - Len(t)) : SubSeq(s, i + 1, i + Len(t)) = t

\* as labelMatches, comparing the label as written
labelMatches_CaseSensitive(item, value) == includes(item.label, toLowerCase(value))

\* the predicate of the filter in updateSearch
labelMatches(item, value) == includes(toLowerCase(item.label), toLowerCase(value))

----------------------------------------------------------------------------
(* Objects *)

FacetItem(value, label, selected) ==
    [value |-> value, label |-> label, selected |-> selected]

\* what reading a missing key of the state yields, as seen by a spread:
\* {...undefined} is {}
Undefined ==
    [fields |-> {}, id |-> 0, title |-> "", accessor |-> "", items |-> <<>>,
     originalItems |-> <<>>, open |-> FALSE, allSelected |-> FALSE, search |-> <<>>]

\* prevState[key]
Get(prevState, key) == IF key \in DOMAIN prevState THEN prevState[key] ELSE Undefined

\* { ...prevState, [key]: facet }
Put(prevState, key, facet) ==
    [k \in DOMAIN prevState \cup {key} |-> IF k = key THEN facet ELSE prevState[k]]

Has(obj, name) == name \in obj.fields

----------------------------------------------------------------------------
(* The updaters: each is the function passed to setFilterFacetState *)

\* as WithOpen, the record built afresh with allSelected at its default
WithOpen_ResetsAllSelected(facet, value) ==
    [facet EXCEPT !.fields = @ \cup {"open"}, !.open = value, !.allSelected = FALSE]

\* { ...facet, open: value }
WithOpen(facet, value) ==
    [facet EXCEPT !.fields = @ \cup {"open"}, !.open = value]

\* as WithItems, the record built afresh without the facet's search text
WithItems_DropsSearch(facet, newItems, all) ==
    [facet EXCEPT !.fields = (@ \cup {"items", "allSelected"}) \ {"search"},
                  !.items = newItems, !.allSelected = all, !.search = <<>>]

\* { ...facet, items: newItems, allSelected: all }
WithItems(facet, newItems, all) ==
    [facet EXCEPT !.fields = @ \cup {"items", "allSelected"},
                  !.items = newItems, !.allSelected = all]

closeAllFacets(prevState) ==
    [key \in DOMAIN prevState |-> WithOpen(prevState[key], FALSE)]

\* as expandAllFacets, flipping each facet instead of opening it
expandAllFacets_Flips(prevState) ==
    [key \in DOMAIN prevState |-> WithOpen(prevState[key], ~prevState[key].open)]

expandAllFacets(prevState) ==
    [key \in DOMAIN prevState |-> WithOpen(prevState[key], TRUE)]

\* prevState[facetId].open is read off undefined when the key is missing
toggleFacetThrows(prevState, facetId) == facetId \notin DOMAIN prevState

\* as toggleFacet, closing every other facet as well
toggleFacet_ClosesOthers(prevState, facetId) ==
    [key \in DOMAIN prevState \cup {facetId} |->
        IF key = facetId
        THEN WithOpen(Get(prevState, facetId), ~Get(prevState, facetId).open)
        ELSE WithOpen(prevState[key], FALSE)]

toggleFacet(prevState, facetId) ==
    Put(prevState, facetId,
        WithOpen(Get(prevState, facetId), ~Get(prevState, facetId).open))

\* as expandFacet, without the monoOpen branch
expandFacet_KeepsOthersOpen(prevState, facetId, mono) ==
    Put(prevState, facetId, WithOpen(Get(prevState, facetId), TRUE))

expandFacet(prevState, facetId, mono) ==
    LET newState == IF mono THEN closeAllFacets(prevState) ELSE prevState
    IN  Put(newState, facetId, WithOpen(Get(newState, facetId), TRUE))

\* as closeFacet, flipping the facet instead of closing it
closeFacet_Flips(prevState, facetId) ==
    Put(prevState, facetId, WithOpen(Get(prevState, facetId), ~Get(prevState, facetId).open))

closeFacet(prevState, facetId) ==
    Put(prevState, facetId, WithOpen(Get(prevState, facetId), FALSE))

\* facet.items.map(...) is called on undefined when the passed record has no items
readsItemsOfUndefined(facet) == ~Has(facet, "items")

\* as toggledItems, selecting the item instead of flipping it
toggledItems_Selects(items, item) ==
    [n \in 1..Len(items) |->
        IF items[n].value = item.value
        THEN [items[n] EXCEPT !.selected = TRUE]
        ELSE items[n]]

\* facet.items.map(i => i.value === item.value ? {...i, selected: !i.selected} : i)
toggledItems(items, item) ==
    [n \in 1..Len(items) |->
        IF items[n].value = item.value
        THEN [items[n] EXCEPT !.selected = ~@]
        ELSE items[n]]

isSelected(i) == i.selected

\* as toggleSelected, without the allSelected recomputation
toggleSelected_StaleAllSelected(prevState, facet, item) ==
    Put(prevState, facet.id,
        WithItems(Get(prevState, facet.id), toggledItems(facet.items, item),
                  Get(prevState, facet.id).allSelected))

toggleSelected(prevState, facet, item) ==
    LET newItems == toggledItems(facet.items, item)
        selectedItems == SelectSeq(newItems, isSelected)
    IN  Put(prevState, facet.id,
            WithItems(Get(prevState, facet.id), newItems,
                      Len(selectedItems) = Len(facet.items)))

\* newState[facetId].items.map(...) is called on undefined when the store
\* has no such facet, or has one without items
selectOnlyThrows(prevState, facet) == ~Has(Get(prevState, facet.id), "items")

\* as selectOnly, mapping the items of the passed record as the other callbacks do
selectOnly_FromPassedRecord(prevState, facet, item) ==
    Put(prevState, facet.id,
        WithItems(Get(prevState, facet.id),
                  [n \in 1..Len(facet.items) |->
                      [facet.items[n] EXCEPT !.selected = (facet.items[n].value = item.value)]],
                  FALSE))

selectOnly(prevState, facet, item) ==
    LET facetId == facet.id
        cur == Get(prevState, facetId)
    IN  Put(prevState, facetId,
            WithItems(cur,
                      [n \in 1..Len(cur.items) |->
                          [cur.items[n] EXCEPT !.selected = (cur.items[n].value = item.value)]],
                      FALSE))

\* facet.items.map(i => ({...i, selected: value}))
allItemsSet(items, value) ==
    [n \in 1..Len(items) |-> [items[n] EXCEPT !.selected = value]]

\* as selectAllItems, without setting allSelected
selectAllItems_StaleAllSelected(prevState, facet) ==
    Put(prevState, facet.id,
        WithItems(Get(prevState, facet.id), allItemsSet(facet.items, TRUE),
                  Get(prevState, facet.id).allSelected))

selectAllItems(prevState, facet) ==
    Put(prevState, facet.id,
        WithItems(Get(prevState, facet.id), allItemsSet(facet.items, TRUE), TRUE))

deSelectAllItems(prevState, facet) ==
    Put(prevState, facet.id,
        WithItems(Get(prevState, facet.id), allItemsSet(facet.items, FALSE), FALSE))

\* as findFacetId, falling back to the first key when no accessor matches
findFacetId_FallsBackToFirstKey(prevState, accessor) ==
    LET hits == {key \in DOMAIN prevState :
                    Has(prevState[key], "accessor") /\ prevState[key].accessor = accessor}
        pool == IF hits = {} THEN DOMAIN prevState ELSE hits
    IN  CHOOSE key \in pool : \A other \in pool : key <= other

\* Object.keys(prevState).find(key => prevState[key].accessor === accessor):
\* integer-like keys are enumerated in ascending order; 0 stands for "none"
findFacetId(prevState, accessor) ==
    LET hits == {key \in DOMAIN prevState :
                    Has(prevState[key], "accessor") /\ prevState[key].accessor = accessor}
    IN  IF hits = {} THEN 0
        ELSE CHOOSE key \in hits : \A other \in hits : key <= other

\* as selectedIn, never finding the item
selectedIn_NeverFound(items, item) == FALSE

\* facet.items.find(fi => fi.value === item.value)?.selected || false
selectedIn(items, item) ==
    LET hits == {n \in 1..Len(items) : items[n].value = item.value}
    IN  IF hits = {} THEN FALSE
        ELSE items[CHOOSE n \in hits : \A m \in hits : n <= m].selected

\* as filteredItems, keeping every item
filteredItems_KeepsAll(items, value) == items

\* facet.items.filter(item => item.label.toLowerCase().includes(value.toLowerCase()))
filteredItems(items, value) ==
    LET matches(item) == labelMatches(item, value)
    IN  SelectSeq(items, matches)

\* as restoredItems, the list brought back last item first
restoredItems_Reversed(originalItems, items) ==
    [n \in 1..Len(originalItems) |->
        [originalItems[Len(originalItems) + 1 - n] EXCEPT
            !.selected = selectedIn(items, originalItems[Len(originalItems) + 1 - n])]]

\* as restoredItems, without re-applying the flags of the current list
restoredItems_AsCaptured(originalItems, items) == originalItems

\* originalItems.map(item => ({...item, selected: <its flag in facet.items, or false>}))
restoredItems(originalItems, items) ==
    [n \in 1..Len(originalItems) |->
        [originalItems[n] EXCEPT !.selected = selectedIn(items, originalItems[n])]]

\* as capturedOriginalItems, taking the current list on every call
capturedOriginalItems_Recaptured(facet) == facet.items

\* facet.originalItems || facet.items (an array, even an empty one, is truthy)
capturedOriginalItems(facet) ==
    IF Has(facet, "originalItems") THEN facet.originalItems ELSE facet.items

updateSearch(prevState, accessor, value) ==
    LET facetId == findFacetId(prevState, accessor)
    IN  IF facetId = 0 THEN prevState
        ELSE
            LET facet == prevState[facetId]
                originalItems == capturedOriginalItems(facet)
                newItems ==
                    IF value # <<>>
                    THEN filteredItems(facet.items, value)
                    ELSE restoredItems(originalItems, facet.items)
            IN  Put(prevState, facetId,
                    [facet EXCEPT !.fields = @ \cup {"items", "search", "originalItems"},
                                  !.items = newItems,
                                  !.search = value,
                                  !.originalItems = originalItems])

----------------------------------------------------------------------------
(* Construction: useFilterFacets({ initialState, monoOpen }) *)

\* the property names of a Facet as the caller supplies it (originalItems is optional)
FacetFields == {"id", "title", "accessor", "items", "open", "allSelected", "search"}

Facet(id, title, accessor, items, open) ==
    [fields |-> FacetFields, id |-> id, title |-> title, accessor |-> accessor,
     items |-> items, originalItems |-> <<>>, open |-> open,
     allSelected |-> FALSE, search |-> <<>>]

StatusItems ==
    << FacetItem(1, <<"O", "p", "e", "n">>, FALSE),
       FacetItem(2, <<"C", "l", "o", "s", "e", "d">>, FALSE) >>

TypeItems == << FacetItem(5, <<"B", "u", "g">>, FALSE) >>

\* caller-supplied initial states: a two-facet panel
TwoFacets ==
    { (1 :> Facet(1, "Status", "status", StatusItems, o1)
       @@ 2 :> Facet(2, "Type", "type", TypeItems, o2)) : o1, o2 \in BOOLEAN }

\* caller-supplied initial states: a one-facet panel
OneFacet == { (1 :> Facet(1, "Status", "status", StatusItems, o1)) : o1 \in BOOLEAN }

Values(items) == [n \in 1..Len(items) |-> items[n].value]

ValueSet(items) == {items[n].value : n \in 1..Len(items)}

NumOpen(s) == Cardinality({key \in DOMAIN s : s[key].open})

Start == [op |-> "init", id |-> 0, value |-> 0, accessor |-> "", text |-> <<>>]

\* nothing filtered yet; every item's latest flag is its initial one
NoHistory(s) ==
    [key \in DOMAIN s |->
        [searched |-> FALSE,
         selected |-> [v \in ValueSet(s[key].items) |->
                          selectedIn(s[key].items, FacetItem(v, <<>>, FALSE))]]]

InitFrom(initialStates) ==
    /\ monoOpen \in BOOLEAN
    /\ filterFacetState \in initialStates
    /\ monoOpen => NumOpen(filterFacetState) <= 1
    /\ rendered = filterFacetState
    /\ queued = 0
    /\ last = Start
    /\ threw = FALSE
    /\ history = NoHistory(filterFacetState)
    /\ repeated = FALSE
    /\ prior = <<>>

Init == InitFrom(TwoFacets)

----------------------------------------------------------------------------
(* Arguments the host passes *)

\* texts typed into the search box
SearchTexts == { <<>>, <<"c", "l", "o">>, <<"O", "P">> }

\* accessors handed to updateSearch; "priority" belongs to no facet here
Accessors == {"status", "type", "priority"}

\* an item of a facet that is not on the panel
StrangerItem == FacetItem(7, <<"L", "o", "w">>, FALSE)

\* the items a caller can pass along with a facet record
ItemsOf(facet) == {facet.items[n] : n \in 1..Len(facet.items)} \cup {StrangerItem}

----------------------------------------------------------------------------
(* One action per exported callback *)

Dispatch(op, id, value, accessor, text, throws, newState) ==
    /\ filterFacetState' = IF throws THEN filterFacetState ELSE newState
    /\ threw' = throws
    /\ last' = [op |-> op, id |-> id, value |-> value, accessor |-> accessor, text |-> text]
    /\ UNCHANGED monoOpen

CloseAllFacets ==
    Dispatch("closeAllFacets", 0, 0, "", <<>>, FALSE, closeAllFacets(filterFacetState))

ExpandAllFacets ==
    Dispatch("expandAllFacets", 0, 0, "", <<>>, FALSE, expandAllFacets(filterFacetState))

ToggleFacet(facetId) ==
    Dispatch("toggleFacet", facetId, 0, "", <<>>,
             toggleFacetThrows(filterFacetState, facetId),
             toggleFacet(filterFacetState, facetId))

ExpandFacet(facetId) ==
    Dispatch("expandFacet", facetId, 0, "", <<>>, FALSE,
             expandFacet(filterFacetState, facetId, monoOpen))

CloseFacet(facetId) ==
    Dispatch("closeFacet", facetId, 0, "", <<>>, FALSE,
             closeFacet(filterFacetState, facetId))

ToggleSelected(facet, item) ==
    Dispatch("toggleSelected", facet.id, item.value, "", <<>>,
             readsItemsOfUndefined(facet),
             toggleSelected(filterFacetState, facet, item))

SelectOnly(facet, item) ==
    Dispatch("selectOnly", facet.id, item.value, "", <<>>,
             selectOnlyThrows(filterFacetState, facet),
             selectOnly(filterFacetState, facet, item))

SelectAllItems(facet) ==
    Dispatch("selectAllItems", facet.id, 0, "", <<>>,
             readsItemsOfUndefined(facet),
             selectAllItems(filterFacetState, facet))

DeSelectAllItems(facet) ==
    Dispatch("deSelectAllItems", facet.id, 0, "", <<>>,
             readsItemsOfUndefined(facet),
             deSelectAllItems(filterFacetState, facet))

UpdateSearch(accessor, value) ==
    Dispatch("updateSearch", 0, 0, accessor, value, FALSE,
             updateSearch(filterFacetState, accessor, value))

----------------------------------------------------------------------------
(* Hosts.  The callbacks take ids, facet records and items from the host,
   which has them from the snapshot it rendered. *)

\* the component re-renders before the next call is made
Rerender == rendered' = filterFacetState' /\ queued' = 0

Untracked == UNCHANGED <<history, repeated, prior>>

\* Spec: every call is handed the records and keys of the current state
Next ==
    \/ CloseAllFacets /\ Rerender /\ Untracked
    \/ ExpandAllFacets /\ Rerender /\ Untracked
    \/ \E key \in DOMAIN rendered : ToggleFacet(rendered[key].id) /\ Rerender /\ Untracked
    \/ \E key \in DOMAIN rendered : ExpandFacet(rendered[key].id) /\ Rerender /\ Untracked
    \/ \E key \in DOMAIN rendered : CloseFacet(rendered[key].id) /\ Rerender /\ Untracked
    \/ \E key \in DOMAIN rendered : \E item \in ItemsOf(rendered[key]) :
          ToggleSelected(rendered[key], item) /\ Rerender /\ Untracked
    \/ \E key \in DOMAIN rendered : \E item \in ItemsOf(rendered[key]) :
          SelectOnly(rendered[key], item) /\ Rerender /\ Untracked
    \/ \E key \in DOMAIN rendered : SelectAllItems(rendered[key]) /\ Rerender /\ Untracked
    \/ \E key \in DOMAIN rendered : DeSelectAllItems(rendered[key]) /\ Rerender /\ Untracked
    \/ \E accessor \in Accessors : \E value \in SearchTexts :
          UpdateSearch(accessor, value) /\ Rerender /\ Untracked

Spec == Init /\ [][Next]_vars

----------------------------------------------------------------------------
(* SpecTracked: the same host on a one-facet panel, with the history kept:
   whether a non-empty search was applied to the facet, and the selected
   flag each item had when it was last in the items list. *)

Track ==
    /\ history' =
        [key \in DOMAIN history |->
            LET items == Get(filterFacetState', key).items
            IN  [searched |->
                    \/ history[key].searched
                    \/ /\ last'.op = "updateSearch"
                       /\ last'.text # <<>>
                       /\ findFacetId(filterFacetState, last'.accessor) = key,
                 selected |->
                    [v \in DOMAIN history[key].selected |->
                        IF v \in ValueSet(items)
                        THEN selectedIn(items, FacetItem(v, <<>>, FALSE))
                        ELSE history[key].selected[v]]]]
    /\ UNCHANGED <<repeated, prior>>

InitTracked == InitFrom(OneFacet)

NextTracked ==
    \/ CloseAllFacets /\ Rerender /\ Track
    \/ ExpandAllFacets /\ Rerender /\ Track
    \/ \E key \in DOMAIN rendered : ToggleFacet(rendered[key].id) /\ Rerender /\ Track
    \/ \E key \in DOMAIN rendered : ExpandFacet(rendered[key].id) /\ Rerender /\ Track
    \/ \E key \in DOMAIN rendered : CloseFacet(rendered[key].id) /\ Rerender /\ Track
    \/ \E key \in DOMAIN rendered : \E item \in ItemsOf(rendered[key]) :
          ToggleSelected(rendered[key], item) /\ Rerender /\ Track
    \/ \E key \in DOMAIN rendered : \E item \in ItemsOf(rendered[key]) :
          SelectOnly(rendered[key], item) /\ Rerender /\ Track
    \/ \E key \in DOMAIN rendered : SelectAllItems(rendered[key]) /\ Rerender /\ Track
    \/ \E key \in DOMAIN rendered : DeSelectAllItems(rendered[key]) /\ Rerender /\ Track
    \/ \E accessor \in Accessors : \E value \in SearchTexts :
          UpdateSearch(accessor, value) /\ Rerender /\ Track

SpecTracked == InitTracked /\ [][NextTracked]_vars

----------------------------------------------------------------------------
(* SpecBatch: a host that makes up to MaxQueued calls from one rendered
   snapshot before the component renders again (several calls in one event
   handler), on a one-facet panel.  The callbacks close over the facet
   record of the snapshot, the updaters run in dispatch order. *)

MaxQueued == 2

Deferred ==
    /\ queued < MaxQueued
    /\ queued' = queued + 1
    /\ UNCHANGED <<rendered, history, repeated, prior>>

Render ==
    /\ queued > 0
    /\ rendered' = filterFacetState
    /\ queued' = 0
    /\ UNCHANGED <<filterFacetState, monoOpen, last, threw, history, repeated, prior>>

InitBatch == InitFrom(OneFacet)

NextBatch ==
    \/ Render
    \/ CloseAllFacets /\ Deferred
    \/ ExpandAllFacets /\ Deferred
    \/ \E key \in DOMAIN rendered : ToggleFacet(rendered[key].id) /\ Deferred
    \/ \E key \in DOMAIN rendered : ExpandFacet(rendered[key].id) /\ Deferred
    \/ \E key \in DOMAIN rendered : CloseFacet(rendered[key].id) /\ Deferred
    \/ \E key \in DOMAIN rendered : \E item \in ItemsOf(rendered[key]) :
          ToggleSelected(rendered[key], item) /\ Deferred
    \/ \E key \in DOMAIN rendered : \E item \in ItemsOf(rendered[key]) :
          SelectOnly(rendered[key], item) /\ Deferred
    \/ \E key \in DOMAIN rendered : SelectAllItems(rendered[key]) /\ Deferred
    \/ \E key \in DOMAIN rendered : DeSelectAllItems(rendered[key]) /\ Deferred
    \/ \E accessor \in Accessors : \E value \in SearchTexts :
          UpdateSearch(accessor, value) /\ Deferred

SpecBatch == InitBatch /\ [][NextBatch]_vars

----------------------------------------------------------------------------
(* SpecForeign: the re-rendering host on a one-facet panel, which also
   passes an id that is no key of the state and the facet record of
   another panel. *)

ForeignId == 3

ForeignFacet ==
    Facet(ForeignId, "Priority", "priority", << StrangerItem >>, FALSE)

FacetIdArgs == DOMAIN rendered \cup {ForeignId}

FacetArgs ==
    {rendered[key] : key \in {k \in DOMAIN rendered : Has(rendered[k], "id")}}
        \cup {ForeignFacet}

InitForeign == InitFrom(OneFacet)

NextForeign ==
    \/ CloseAllFacets /\ Rerender /\ Untracked
    \/ ExpandAllFacets /\ Rerender /\ Untracked
    \/ \E facetId \in FacetIdArgs : ToggleFacet(facetId) /\ Rerender /\ Untracked
    \/ \E facetId \in FacetIdArgs : ExpandFacet(facetId) /\ Rerender /\ Untracked
    \/ \E facetId \in FacetIdArgs : CloseFacet(facetId) /\ Rerender /\ Untracked
    \/ \E facet \in FacetArgs : \E item \in ItemsOf(facet) :
          ToggleSelected(facet, item) /\ Rerender /\ Untracked
    \/ \E facet \in FacetArgs : \E item \in ItemsOf(facet) :
          SelectOnly(facet, item) /\ Rerender /\ Untracked
    \/ \E facet \in FacetArgs : SelectAllItems(facet) /\ Rerender /\ Untracked
    \/ \E facet \in FacetArgs : DeSelectAllItems(facet) /\ Rerender /\ Untracked
    \/ \E accessor \in Accessors : \E value \in SearchTexts :
          UpdateSearch(accessor, value) /\ Rerender /\ Untracked

SpecForeign == InitForeign /\ [][NextForeign]_vars

----------------------------------------------------------------------------
(* SpecTwice: the re-rendering host on the two-facet panel, with a record of
   whether a call repeats the one made just before it and, for the two
   toggling calls, of the state the call was made in. *)

Twice ==
    /\ repeated' = (last' = last)
    /\ prior' = IF last'.op \in {"toggleFacet", "toggleSelected"}
                THEN filterFacetState
                ELSE <<>>
    /\ UNCHANGED history

InitTwice == InitFrom(TwoFacets)

NextTwice ==
    \/ CloseAllFacets /\ Rerender /\ Twice
    \/ ExpandAllFacets /\ Rerender /\ Twice
    \/ \E key \in DOMAIN rendered : ToggleFacet(rendered[key].id) /\ Rerender /\ Twice
    \/ \E key \in DOMAIN rendered : ExpandFacet(rendered[key].id) /\ Rerender /\ Twice
    \/ \E key \in DOMAIN rendered : CloseFacet(rendered[key].id) /\ Rerender /\ Twice
    \/ \E key \in DOMAIN rendered : \E item \in ItemsOf(rendered[key]) :
          ToggleSelected(rendered[key], item) /\ Rerender /\ Twice
    \/ \E key \in DOMAIN rendered : \E item \in ItemsOf(rendered[key]) :
          SelectOnly(rendered[key], item) /\ Rerender /\ Twice
    \/ \E key \in DOMAIN rendered : SelectAllItems(rendered[key]) /\ Rerender /\ Twice
    \/ \E key \in DOMAIN rendered : DeSelectAllItems(rendered[key]) /\ Rerender /\ Twice
    \/ \E accessor \in Accessors : \E value \in SearchTexts :
          UpdateSearch(accessor, value) /\ Rerender /\ Twice

SpecTwice == InitTwice /\ [][NextTwice]_vars

----------------------------------------------------------------------------
(* SpecApp: the App component (src/unnamed/part_001), which builds the hook
   without monoOpen and renders one FilterFacet per facet of the state.  The
   actions are the user's clicks and key strokes on what is rendered. *)

\* the props App passes to each FilterFacet
AppProps == {"facet", "toggleFacet", "toggleItem", "selectOnly", "updateSearch"}

\* a facet as INITIAL_STATE writes it: closed, and without allSelected
AppFacet(id, title, accessor, items) ==
    [Facet(id, title, accessor, items, FALSE) EXCEPT !.fields = @ \ {"allSelected"}]

INITIAL_STATE ==
    1 :> AppFacet(1, "Status", "status", StatusItems)
    @@ 2 :> AppFacet(2, "Type", "type", TypeItems)

InitApp ==
    /\ InitFrom({INITIAL_STATE})
    /\ monoOpen = FALSE

\* the prop handleButtonClick calls for this facet and item
handleButtonClick(facet, item) ==
    IF facet.allSelected THEN "deSelectAllItems"
    ELSE IF item.selected THEN "selectAllItems"
    ELSE "selectOnly"

\* calling a prop that was not passed raises a TypeError in the click handler
\* and no update is dispatched
ToggleFilterButtonClick(facet, item) ==
    LET handler == handleButtonClick(facet, item)
    IN  IF handler \notin AppProps
        THEN Dispatch(handler, facet.id, item.value, "", <<>>, TRUE, filterFacetState)
        ELSE CASE handler = "deSelectAllItems" -> DeSelectAllItems(facet)
               [] handler = "selectAllItems" -> SelectAllItems(facet)
               [] OTHER -> SelectOnly(facet, item)

\* <li onClick={() => toggleItem(facet, item)}>, toggleItem being toggleSelected
FacetItemClick(facet, item) == ToggleSelected(facet, item)

\* <div className="facet-header" onClick={toggleFacet}>
FacetHeaderClick(facet) == ToggleFacet(facet.id)

\* <input type="search" onChange={...}>
SearchChange(facet, text) == UpdateSearch(facet.accessor, text)

NextApp ==
    \/ ExpandAllFacets /\ Rerender /\ Untracked
    \/ CloseAllFacets /\ Rerender /\ Untracked
    \/ \E key \in DOMAIN rendered : FacetHeaderClick(rendered[key]) /\ Rerender /\ Untracked
    \/ \E key \in DOMAIN rendered : \E n \in 1..Len(rendered[key].items) :
          FacetItemClick(rendered[key], rendered[key].items[n]) /\ Rerender /\ Untracked
    \/ \E key \in DOMAIN rendered : \E n \in 1..Len(rendered[key].items) :
          ToggleFilterButtonClick(rendered[key], rendered[key].items[n]) /\ Rerender /\ Untracked
    \/ \E key \in DOMAIN rendered : \E text \in SearchTexts :
          SearchChange(rendered[key], text) /\ Rerender /\ Untracked

SpecApp == InitApp /\ [][NextApp]_vars

----------------------------------------------------------------------------
(* Properties *)

EverySelected(items) == \A n \in 1..Len(items) : items[n].selected

OpenKeys(s) == {key \in DOMAIN s : s[key].open}

\* C1: in every reachable state each facet has allSelected = TRUE exactly
\* when every item of its items list is selected.
C1_AllSelectedIffEverySelected ==
    \A key \in DOMAIN filterFacetState :
        filterFacetState[key].allSelected <=> EverySelected(filterFacetState[key].items)

\* C2: when a facet has had a non-empty search, an updateSearch(accessor, "")
\* leaves items with the values of originalItems in the same order, and every
\* item, hidden ones included, with the selected flag it last had before the call.
C2_ClearRestoresLatestSelection ==
    [][ \A key \in DOMAIN filterFacetState :
            ( /\ last'.op = "updateSearch"
              /\ last'.text = <<>>
              /\ findFacetId(filterFacetState, last'.accessor) = key
              /\ history[key].searched ) =>
                LET items == filterFacetState'[key].items
                IN  /\ Values(items) = Values(filterFacetState'[key].originalItems)
                    /\ \A n \in 1..Len(items) :
                          items[n].selected = history[key].selected[items[n].value]
      ]_vars

\* C3: with monoOpen, started with at most one open facet, at most one
\* facet is open in every reachable state.
C3_MonoOpenAtMostOneOpen ==
    monoOpen => NumOpen(filterFacetState) <= 1

\* C4: an expandFacet(id) on an existing id leaves, with monoOpen, exactly
\* the facet id open; without monoOpen it opens id and keeps every other
\* facet's open flag.
C4_ExpandFacet ==
    [][ (last'.op = "expandFacet" /\ last'.id \in DOMAIN filterFacetState) =>
            /\ ~threw'
            /\ DOMAIN filterFacetState' = DOMAIN filterFacetState
            /\ IF monoOpen
               THEN OpenKeys(filterFacetState') = {last'.id}
               ELSE /\ filterFacetState'[last'.id].open
                    /\ \A key \in DOMAIN filterFacetState \ {last'.id} :
                          filterFacetState'[key].open = filterFacetState[key].open
      ]_vars

\* C4 happens: under monoOpen an expandFacet has just left its facet the only open one
C4_Witness ==
    /\ last.op = "expandFacet"
    /\ monoOpen
    /\ Cardinality(DOMAIN filterFacetState) >= 2
    /\ OpenKeys(filterFacetState) = {last.id}

\* the callbacks that close over the passed facet's items
ItemsFromRecordOps == {"toggleSelected", "selectAllItems", "deSelectAllItems"}

\* C5: calls take effect in dispatch order on top of all earlier calls: a
\* call on a facet keeps what earlier calls did to that facet's items (the
\* item list an earlier updateSearch left, the flags earlier toggles left on
\* the other items), also when it was handed the record of an earlier snapshot.
C5_NoEarlierUpdateLost ==
    [][ (last'.op \in ItemsFromRecordOps /\ last'.id \in DOMAIN filterFacetState) =>
            LET before == filterFacetState[last'.id].items
                after == filterFacetState'[last'.id].items
            IN  /\ Values(after) = Values(before)
                /\ last'.op = "toggleSelected" =>
                      \A n \in 1..Len(before) :
                          before[n].value # last'.value =>
                              after[n].selected = before[n].selected
      ]_vars

\* the callbacks that are given a facet id, directly or as facet.id
FacetIdOps ==
    {"toggleFacet", "expandFacet", "closeFacet", "toggleSelected", "selectOnly",
     "selectAllItems", "deSelectAllItems"}

\* C6: a call with a facet id that is no key of the state raises nothing and
\* leaves the state as it is.
C6_UnknownIdIsNoOp ==
    [][ (last'.op \in FacetIdOps /\ last'.id \notin DOMAIN filterFacetState) =>
            (~threw' /\ filterFacetState' = filterFacetState)
      ]_vars

\* the full item list of a facet: originalItems once set, items until then
FullItems(facet) == IF Has(facet, "originalItems") THEN facet.originalItems ELSE facet.items

\* C7: the keys of the state are the keys of the initial state, and every
\* facet's full item list holds the item values it held initially.
C7_NothingCreatedOrDestroyed ==
    /\ DOMAIN filterFacetState = DOMAIN history
    /\ \A key \in DOMAIN filterFacetState \cap DOMAIN history :
          ValueSet(FullItems(filterFacetState[key])) = DOMAIN history[key].selected

\* C8: a facet's originalItems is set by the first updateSearch whose
\* accessor is the facet's, to the items list of that moment, and is the same
\* sequence in every later state.
C8_OriginalItemsSetOnce ==
    [][ \A key \in DOMAIN filterFacetState :
            LET before == filterFacetState[key]
                after == Get(filterFacetState', key)
                resolved == last'.op = "updateSearch" /\ before.accessor = last'.accessor
            IN  /\ Has(before, "originalItems") =>
                      /\ Has(after, "originalItems")
                      /\ after.originalItems = before.originalItems
                /\ ~Has(before, "originalItems") =>
                      /\ Has(after, "originalItems") <=> resolved
                      /\ resolved => after.originalItems = before.items
      ]_vars

\* C8 happens: a search has filtered the view of a facet whose originalItems
\* still holds every initial item
C8_Witness ==
    /\ last.op = "updateSearch"
    /\ \E key \in DOMAIN filterFacetState :
          LET facet == filterFacetState[key]
          IN  /\ facet.accessor = last.accessor
              /\ Has(facet, "originalItems")
              /\ Len(facet.items) < Len(facet.originalItems)
              /\ ValueSet(facet.originalItems) = DOMAIN history[key].selected

NumSelected(items) == Cardinality({n \in 1..Len(items) : items[n].selected})

\* C9: a toggleSelected(facet, item) leaves the facet with the passed
\* record's items, selected negated on the item of item's value and nothing
\* else changed, and with allSelected = (number of selected items = number
\* of items of that list).
C9_ToggleSelected ==
    [][ (last'.op = "toggleSelected" /\ last'.id \in DOMAIN rendered) =>
            LET passed == rendered[last'.id].items
                after == filterFacetState'[last'.id]
            IN  /\ ~threw'
                /\ Len(after.items) = Len(passed)
                /\ \A n \in 1..Len(passed) :
                      /\ after.items[n].value = passed[n].value
                      /\ after.items[n].label = passed[n].label
                      /\ after.items[n].selected =
                            IF passed[n].value = last'.value
                            THEN ~passed[n].selected
                            ELSE passed[n].selected
                /\ after.allSelected = (NumSelected(after.items) = Len(after.items))
      ]_vars

\* C9 happens: a toggle on a view narrowed by a search has selected all that is visible
C9_Witness ==
    /\ last.op = "toggleSelected"
    /\ last.id \in DOMAIN filterFacetState
    /\ LET facet == filterFacetState[last.id]
       IN  /\ facet.search # <<>>
           /\ Len(facet.items) >= 1
           /\ Len(facet.items) < Len(facet.originalItems)
           /\ last.value \in ValueSet(facet.items)
           /\ facet.allSelected

\* C10: a selectAllItems(facet) leaves every item selected and allSelected
\* TRUE, a deSelectAllItems(facet) every item unselected and allSelected
\* FALSE; the items are otherwise those of the record, in number, order,
\* value and label.
C10_SelectAllDeSelectAll ==
    [][ (last'.op \in {"selectAllItems", "deSelectAllItems"} /\ last'.id \in DOMAIN rendered) =>
            LET passed == rendered[last'.id].items
                after == filterFacetState'[last'.id]
                flag == (last'.op = "selectAllItems")
            IN  /\ ~threw'
                /\ after.allSelected = flag
                /\ Len(after.items) = Len(passed)
                /\ \A n \in 1..Len(passed) :
                      /\ after.items[n].value = passed[n].value
                      /\ after.items[n].label = passed[n].label
                      /\ after.items[n].selected = flag
      ]_vars

\* C10 happens: selectAllItems has selected both items of a facet
C10_Witness ==
    /\ last.op = "selectAllItems"
    /\ last.id \in DOMAIN filterFacetState
    /\ Len(filterFacetState[last.id].items) = 2
    /\ EverySelected(filterFacetState[last.id].items)
    /\ filterFacetState[last.id].allSelected

\* C11: a selectOnly(facet, item) leaves the items the store held for the
\* facet (not those of the passed record), each selected exactly when its
\* value is item's, and allSelected FALSE whatever the number of items.
C11_SelectOnly ==
    [][ (last'.op = "selectOnly" /\ last'.id \in DOMAIN filterFacetState) =>
            LET before == filterFacetState[last'.id].items
                after == filterFacetState'[last'.id]
            IN  /\ ~threw'
                /\ Len(after.items) = Len(before)
                /\ \A n \in 1..Len(before) :
                      /\ after.items[n].value = before[n].value
                      /\ after.items[n].label = before[n].label
                      /\ after.items[n].selected = (before[n].value = last'.value)
                /\ after.allSelected = FALSE
      ]_vars

\* C11 happens: selectOnly, handed a two-item record of an earlier snapshot,
\* has selected the only item the store shows, and allSelected is FALSE
C11_Witness ==
    /\ last.op = "selectOnly"
    /\ last.id \in DOMAIN filterFacetState \cap DOMAIN rendered
    /\ Len(rendered[last.id].items) = 2
    /\ Len(filterFacetState[last.id].items) = 1
    /\ filterFacetState[last.id].items[1].selected
    /\ ~filterFacetState[last.id].allSelected

\* the letters of the alphabet in use, capital and small
CasePairs == { <<"O", "o">>, <<"C", "c">>, <<"B", "b">>, <<"P", "p">>, <<"L", "l">> }

SameLetter(a, b) == a = b \/ <<a, b>> \in CasePairs \/ <<b, a>> \in CasePairs

\* text occurs in label as a substring, letter case disregarded
ContainsIgnoringCase(label, text) ==
    \E k \in 0..(Len(label) - Len(text)) :
        \A i \in 1..Len(text) : SameLetter(label[k + i], text[i])

\* the positions of the items of a list whose label contains text
Matching(items, text) ==
    {n \in 1..Len(items) : ContainsIgnoringCase(items[n].label, text)}

\* list is the items of whole at the positions kept, in the order of whole
IsSelection(list, whole, kept) ==
    /\ Len(list) = Cardinality(kept)
    /\ \A i \in 1..Len(list) :
          \E n \in kept :
              /\ Cardinality({m \in kept : m <= n}) = i
              /\ list[i] = whole[n]

\* the facet an updateSearch call for this accessor acts on
Resolved(facet, accessor) == Has(facet, "accessor") /\ facet.accessor = accessor

\* C12: an updateSearch(accessor, text) with non-empty text leaves the facet
\* with search = text and with the items of its previous list whose label
\* contains text, letter case disregarded, in their previous order.
C12_SearchFiltersCurrentItems ==
    [][ \A key \in DOMAIN filterFacetState :
            ( /\ last'.op = "updateSearch"
              /\ last'.text # <<>>
              /\ Resolved(filterFacetState[key], last'.accessor) ) =>
                LET before == filterFacetState[key].items
                    after == filterFacetState'[key]
                IN  /\ after.search = last'.text
                    /\ IsSelection(after.items, before, Matching(before, last'.text))
      ]_vars

\* C12 happens: the search "clo" has left only the item labelled "Closed"
C12_Witness ==
    /\ last.op = "updateSearch"
    /\ last.text = <<"c", "l", "o">>
    /\ \E key \in DOMAIN filterFacetState :
          /\ Resolved(filterFacetState[key], last.accessor)
          /\ filterFacetState[key].search = last.text
          /\ Len(filterFacetState[key].items) = 1
          /\ filterFacetState[key].items[1].label = <<"C", "l", "o", "s", "e", "d">>
          /\ Len(filterFacetState[key].originalItems) = 2

\* C13: an updateSearch(accessor, "") leaves the facet with the originalItems
\* sequence, each item selected exactly when the item of its value in the
\* previous items list was selected, and unselected when that list had none.
C13_ClearRestoresFromCurrentFlags ==
    [][ \A key \in DOMAIN filterFacetState :
            ( /\ last'.op = "updateSearch"
              /\ last'.text = <<>>
              /\ Resolved(filterFacetState[key], last'.accessor) ) =>
                LET whole == FullItems(filterFacetState[key])
                    before == filterFacetState[key].items
                    after == filterFacetState'[key]
                IN  /\ after.originalItems = whole
                    /\ Len(after.items) = Len(whole)
                    /\ \A n \in 1..Len(whole) :
                          /\ after.items[n].value = whole[n].value
                          /\ after.items[n].label = whole[n].label
                          /\ after.items[n].selected =
                                (\E m \in 1..Len(before) :
                                    before[m].value = whole[n].value /\ before[m].selected)
      ]_vars

\* C13 happens: clearing a search has brought back an item captured as
\* selected with selected = FALSE, next to one whose flag it re-applied
C13_Witness ==
    /\ last.op = "updateSearch"
    /\ last.text = <<>>
    /\ \E key \in DOMAIN filterFacetState :
          LET facet == filterFacetState[key]
          IN  /\ Resolved(facet, last.accessor)
              /\ history[key].searched
              /\ Len(facet.items) = Len(facet.originalItems)
              /\ \E n \in 1..Len(facet.items) :
                    facet.originalItems[n].selected /\ ~facet.items[n].selected
              /\ \E n \in 1..Len(facet.items) :
                    ~facet.originalItems[n].selected /\ facet.items[n].selected

\* C14: an updateSearch call changes no facet whose accessor is not the one
\* passed: with an accessor of no facet the state is the same before and
\* after, with an accessor of one facet every other facet is.
C14_SearchTouchesOnlyItsFacet ==
    [][ last'.op = "updateSearch" =>
            /\ ~threw'
            /\ DOMAIN filterFacetState' = DOMAIN filterFacetState
            /\ \A key \in DOMAIN filterFacetState :
                  ~Resolved(filterFacetState[key], last'.accessor) =>
                      filterFacetState'[key] = filterFacetState[key]
      ]_vars

\* C14 happens: a non-empty search for an accessor of no facet was made on a
\* state in which another search is in effect
C14_Witness ==
    /\ last.op = "updateSearch"
    /\ last.text # <<>>
    /\ \A key \in DOMAIN filterFacetState :
          ~Resolved(filterFacetState[key], last.accessor)
    /\ \E key \in DOMAIN filterFacetState :
          /\ filterFacetState[key].search # <<>>
          /\ Len(filterFacetState[key].items) = 1

\* C15: a toggleSelected or selectOnly call on an existing facet with an item
\* whose value none of the facet's items has leaves every item's selected
\* flag and the facet's allSelected as they were.
C15_UnknownItemIsNoOp ==
    [][ ( /\ last'.op \in {"toggleSelected", "selectOnly"}
          /\ last'.id \in DOMAIN filterFacetState
          /\ last'.value \notin ValueSet(filterFacetState[last'.id].items) ) =>
            /\ filterFacetState'[last'.id].items = filterFacetState[last'.id].items
            /\ filterFacetState'[last'.id].allSelected = filterFacetState[last'.id].allSelected
      ]_vars

\* C16: a facet's search is the text of the latest updateSearch call made
\* with the facet's accessor, and its initial value before any: such a call
\* sets search to its text, every other call leaves search as it was.
C16_SearchIsLatestText ==
    [][ \A key \in DOMAIN filterFacetState :
            LET before == filterFacetState[key]
                after == Get(filterFacetState', key)
            IN  IF last'.op = "updateSearch" /\ Resolved(before, last'.accessor)
                THEN after.search = last'.text
                ELSE after.search = before.search /\ Has(after, "search")
      ]_vars

\* C16 happens: a selection call was made on a facet whose search text is
\* set, and the text is still there
C16_Witness ==
    /\ last.op \in {"toggleSelected", "selectOnly", "selectAllItems", "deSelectAllItems"}
    /\ last.id \in DOMAIN filterFacetState
    /\ filterFacetState[last.id].search = <<"c", "l", "o">>

C19_ListedItemsMatchSearch ==
    \A key \in DOMAIN filterFacetState :
        LET facet == filterFacetState[key]
        IN  facet.search # <<>> =>
                \A n \in 1..Len(facet.items) :
                    ContainsIgnoringCase(facet.items[n].label, facet.search)

\* C19 happens: a selection call was made on a facet that is narrowed by a
\* search text and still lists an item
C19_Witness ==
    /\ last.op \in {"toggleSelected", "selectOnly", "selectAllItems", "deSelectAllItems"}
    /\ last.id \in DOMAIN filterFacetState
    /\ filterFacetState[last.id].search # <<>>
    /\ Len(filterFacetState[last.id].items) = 1
    /\ filterFacetState[last.id].items[1].selected

\* C20: whatever updateSearch calls came before, an updateSearch(accessor,
\* text) with non-empty text leaves the facet listing exactly the items of its
\* originalItems whose label contains text, letter case disregarded.
C20_SearchFiltersOriginalItems ==
    [][ \A key \in DOMAIN filterFacetState :
            ( /\ last'.op = "updateSearch"
              /\ last'.text # <<>>
              /\ Resolved(filterFacetState[key], last'.accessor) ) =>
                LET after == filterFacetState'[key]
                    whole == after.originalItems
                IN  ValueSet(after.items) =
                        {whole[n].value : n \in Matching(whole, last'.text)}
      ]_vars

\* sub is whole with some of its elements left out, the rest in their order
IsSubsequence(sub, whole) ==
    \E f \in [1..Len(sub) -> 1..Len(whole)] :
        /\ \A i, j \in 1..Len(sub) : i < j => f[i] < f[j]
        /\ \A i \in 1..Len(sub) : sub[i] = whole[f[i]]

\* C21: with every selection call given the facet record of the current
\* state, in every reachable state the values of the items of a facet that
\* has originalItems are a subsequence of the values of its originalItems:
\* no other value, none moved, none repeated more often.
C21_ItemsWithinOriginalItems ==
    \A key \in DOMAIN filterFacetState :
        LET facet == filterFacetState[key]
        IN  Has(facet, "originalItems") =>
                IsSubsequence(Values(facet.items), Values(facet.originalItems))

\* C21 happens: a search was cleared and the facet lists both captured items,
\* one with a flag set since the capture
C21_Witness ==
    /\ last.op = "updateSearch"
    /\ last.text = <<>>
    /\ \E key \in DOMAIN filterFacetState :
          /\ Resolved(filterFacetState[key], last.accessor)
          /\ Has(filterFacetState[key], "originalItems")
          /\ Len(filterFacetState[key].items) = 2
          /\ filterFacetState[key].items[2].selected
          /\ ~filterFacetState[key].originalItems[2].selected

ItemOps == {"toggleSelected", "selectOnly", "selectAllItems", "deSelectAllItems"}

OpenOps == {"closeAllFacets", "expandAllFacets", "toggleFacet", "expandFacet", "closeFacet"}

\* the two records agree on the property, present or absent
SameProperty(before, after, name) ==
    /\ Has(before, name) <=> Has(after, name)
    /\ CASE name = "open" -> after.open = before.open
         [] name = "id" -> after.id = before.id
         [] name = "title" -> after.title = before.title
         [] name = "accessor" -> after.accessor = before.accessor
         [] OTHER -> FALSE

\* C22: on existing facets, toggleSelected, selectOnly, selectAllItems,
\* deSelectAllItems and updateSearch leave every other facet's record as it
\* was and the target facet's open, id, title and accessor as they were;
\* closeAllFacets, expandAllFacets, toggleFacet, expandFacet and closeFacet
\* change no field of any facet other than open.
C22_FrameConditions ==
    [][ /\ DOMAIN filterFacetState' = DOMAIN filterFacetState
        /\ (last'.op \in ItemOps \/ last'.op = "updateSearch") =>
              \A key \in DOMAIN filterFacetState :
                  LET before == filterFacetState[key]
                      after == filterFacetState'[key]
                      target == IF last'.op = "updateSearch"
                                THEN Resolved(before, last'.accessor)
                                ELSE key = last'.id
                  IN  IF target
                      THEN \A name \in {"open", "id", "title", "accessor"} :
                              SameProperty(before, after, name)
                      ELSE after = before
        /\ last'.op \in OpenOps =>
              \A key \in DOMAIN filterFacetState :
                  filterFacetState'[key] =
                      [filterFacetState[key] EXCEPT !.open = filterFacetState'[key].open]
      ]_vars

\* C22 happens: in mono-open mode expandFacet has closed the other facet,
\* which is narrowed by a search and has every listed item selected
C22_Witness ==
    /\ last.op = "expandFacet"
    /\ monoOpen
    /\ \E key \in DOMAIN filterFacetState \ {last.id} :
          /\ ~filterFacetState[key].open
          /\ filterFacetState[key].search # <<>>
          /\ filterFacetState[key].allSelected
          /\ Len(filterFacetState[key].items) = 1
          /\ Len(filterFacetState[key].originalItems) = 2

\* the selected flags the items of this value carry in the list
FlagsOf(items, v) == {items[n].selected : n \in {m \in 1..Len(items) : items[m].value = v}}

\* C23: an updateSearch call, with empty or non-empty text, leaves the
\* selected flag of every item that is in the facet's items list both before
\* and after the call as it was.
C23_SearchKeepsFlagsOfListedItems ==
    [][ last'.op = "updateSearch" =>
            \A key \in DOMAIN filterFacetState :
                LET before == filterFacetState[key].items
                    after == filterFacetState'[key].items
                IN  \A v \in ValueSet(before) \cap ValueSet(after) :
                        FlagsOf(after, v) = FlagsOf(before, v)
      ]_vars

\* C23 happens: a search was cleared on a facet and an item it had listed
\* as selected, captured unselected, is still selected
C23_Witness ==
    /\ last.op = "updateSearch"
    /\ last.text = <<>>
    /\ \E key \in DOMAIN filterFacetState :
          /\ Resolved(filterFacetState[key], last.accessor)
          /\ filterFacetState[key].search = <<>>
          /\ Len(filterFacetState[key].originalItems) = 2
          /\ ~filterFacetState[key].originalItems[1].selected
          /\ Len(filterFacetState[key].items) = 2
          /\ filterFacetState[key].items[1].selected
          /\ ~filterFacetState[key].items[2].selected

IdempotentOps ==
    {"closeAllFacets", "expandAllFacets", "expandFacet", "closeFacet",
     "selectOnly", "selectAllItems", "deSelectAllItems", "updateSearch"}

\* C24: closeAllFacets, expandAllFacets, expandFacet, closeFacet, selectOnly,
\* selectAllItems, deSelectAllItems and updateSearch are idempotent: a call
\* that repeats the one just made, with the same arguments and the facet
\* record the first call produced, leaves the state as the first call left it.
C24_Idempotence ==
    [][ (repeated' /\ last'.op \in IdempotentOps) =>
            filterFacetState' = filterFacetState
      ]_vars

\* C24 happens: the search "clo" was applied a second time to the list it
\* had already narrowed
C24_Witness ==
    /\ repeated
    /\ last.op = "updateSearch"
    /\ last.text = <<"c", "l", "o">>
    /\ \E key \in DOMAIN filterFacetState :
          /\ Resolved(filterFacetState[key], last.accessor)
          /\ filterFacetState[key].search = <<"c", "l", "o">>
          /\ Len(filterFacetState[key].items) = 1
          /\ Len(filterFacetState[key].originalItems) = 2

\* C25: toggleFacet applied twice to the same facet leaves every facet's open
\* flag as it was before the first call; toggleSelected applied twice with
\* the same item, the second call given the facet record the first produced,
\* leaves every item's selected flag as it was, and allSelected as it was
\* when it agreed with the items before the first call.
C25_Involution ==
    [][ /\ (repeated' /\ last'.op = "toggleFacet") =>
              /\ DOMAIN filterFacetState' = DOMAIN prior
              /\ \A key \in DOMAIN prior :
                    filterFacetState'[key].open = prior[key].open
        /\ (repeated' /\ last'.op = "toggleSelected") =>
              /\ DOMAIN filterFacetState' = DOMAIN prior
              /\ \A key \in DOMAIN prior :
                    /\ filterFacetState'[key].items = prior[key].items
                    /\ (prior[key].allSelected <=> EverySelected(prior[key].items)) =>
                          filterFacetState'[key].allSelected = prior[key].allSelected
      ]_vars

\* C25 happens: an item was toggled off and on again in a facet that had
\* every item selected and allSelected set
C25_Witness ==
    /\ repeated
    /\ last.op = "toggleSelected"
    /\ last.id \in DOMAIN filterFacetState
    /\ last.value \in ValueSet(filterFacetState[last.id].items)
    /\ Len(filterFacetState[last.id].items) = 2
    /\ filterFacetState[last.id].allSelected
    /\ ~prior[last.id].allSelected

\* the props the per-item button can call
ButtonHandlers == {"deSelectAllItems", "selectAllItems", "selectOnly"}

\* C26: in the App, every click on a per-item button calls deSelectAllItems
\* when the facet's allSelected is true, otherwise selectAllItems when the
\* item is selected, otherwise selectOnly, and the handler it calls is one of
\* the props App passes to FilterFacet.
C26_ButtonCallsSuppliedHandler ==
    [][ last'.op \in ButtonHandlers =>
            LET facet == rendered[last'.id]
                item == CHOOSE i \in {facet.items[n] : n \in 1..Len(facet.items)} :
                            i.value = last'.value
            IN  /\ last'.op = IF facet.allSelected THEN "deSelectAllItems"
                              ELSE IF item.selected THEN "selectAllItems"
                              ELSE "selectOnly"
                /\ last'.op \in AppProps
      ]_vars

====
